---------------------------- MODULE Spec2Model ----------------------------
(***************************************************************************)
(* Model of the Green Project-Investor Matcher (src/app.py).               *)
(*                                                                         *)
(* Python strings are sequences of one-character strings, so that          *)
(* str.replace, str.split, str.strip, str.lower and str.upper are          *)
(* computed character by character as the interpreter computes them.       *)
(* A table cell that pandas hands to float() is a record                   *)
(* [num |-> BOOLEAN, val |-> Int]: num = FALSE is a text cell on which      *)
(* float() raises ValueError.                                              *)
(***************************************************************************)
EXTENDS Integers, Sequences, FiniteSets, TLC

VARIABLES
    \* ---- parse_esg_tags exercised on its own
    tags,             \* the raw tag string handed to parse_esg_tags
    parsed,           \* parse_esg_tags(tags), or <<>> before the call
    reparsed,         \* parse_esg_tags of the comma-joined tokens of parsed
    \* ---- match_projects_to_investor exercised on its own
    investor_row,     \* the investor record
    projects_df,      \* the project collection, in row order
    selected_tags,    \* the selected dimension letters
    match_df,         \* the outcome of the call
    \* ---- the application: the store and the sessions
    investors,        \* table investors, in row order
    projects,         \* table projects, in row order
    project_notes,    \* table project_notes, a set of rows
    session,          \* per session: the widget state Streamlit keeps
    view,             \* what the latest pass of main() showed
    last_write,       \* history: key -> the latest committed (interested, notes)
    ever_matched,     \* history: the (investor, project) pairs ever displayed
    investor_csv,     \* the file in the investors uploader
    project_csv,      \* the file in the projects uploader
    report,           \* the message upload_csv_to_db showed, per table
    pc                \* position of the function under test

vars == <<tags, parsed, reparsed, investor_row, projects_df, selected_tags,
          match_df, investors, projects, project_notes, session, view,
          last_write, ever_matched, investor_csv, project_csv, report, pc>>

parseVars == <<tags, parsed, reparsed>>
matchVars == <<investor_row, projects_df, selected_tags, match_df>>
appVars   == <<investors, projects, project_notes, session, view,
               last_write, ever_matched>>
uploadVars == <<investor_csv, project_csv, report>>

(***************************************************************************)
(* Bounds of the model.                                                    *)
(***************************************************************************)
MaxTagLen == 5        \* longest raw tag string given to parse_esg_tags alone
MaxProjects == 3      \* longest project collection given to the matcher alone

(***************************************************************************)
(* Characters and strings.                                                 *)
(***************************************************************************)
Range(s) == {s[i] : i \in 1..Len(s)}

LowerChars == <<"a", "b", "c", "d", "e", "f", "g", "h", "i", "j", "k", "l", "m",
                "n", "o", "p", "q", "r", "s", "t", "u", "v", "w", "x", "y", "z">>
UpperChars == <<"A", "B", "C", "D", "E", "F", "G", "H", "I", "J", "K", "L", "M",
                "N", "O", "P", "Q", "R", "S", "T", "U", "V", "W", "X", "Y", "Z">>

ToLower ==
    [c \in {UpperChars[i] : i \in 1..Len(UpperChars)} |->
        LowerChars[CHOOSE i \in 1..Len(UpperChars) : UpperChars[i] = c]]
ToUpper ==
    [c \in {LowerChars[i] : i \in 1..Len(LowerChars)} |->
        UpperChars[CHOOSE i \in 1..Len(LowerChars) : LowerChars[i] = c]]

\* str.lower() on one character
Lower(c) == IF c \in DOMAIN ToLower THEN ToLower[c] ELSE c

\* str.upper() on one character
Upper(c) == IF c \in DOMAIN ToUpper THEN ToUpper[c] ELSE c

LowerStr(s) == [i \in 1..Len(s) |-> Lower(s[i])]

RECURSIVE Replace(_, _)
\* s.replace(old, ""): one left-to-right pass over non-overlapping occurrences
Replace(s, old) ==
    IF Len(s) < Len(old) THEN s
    ELSE IF SubSeq(s, 1, Len(old)) = old
         THEN Replace(SubSeq(s, Len(old) + 1, Len(s)), old)
         ELSE <<s[1]>> \o Replace(Tail(s), old)

RECURSIVE Split(_)
\* s.split(","): always at least one token, empty tokens kept
Split(s) ==
    IF \A i \in 1..Len(s) : s[i] # ","
    THEN <<s>>
    ELSE LET i == CHOOSE k \in 1..Len(s) :
                      s[k] = "," /\ \A j \in 1..(k - 1) : s[j] # ","
         IN  <<SubSeq(s, 1, i - 1)>> \o Split(SubSeq(s, i + 1, Len(s)))

RECURSIVE LStrip(_)
LStrip(s) == IF s # <<>> /\ s[1] = " " THEN LStrip(Tail(s)) ELSE s

RECURSIVE RStrip(_)
RStrip(s) ==
    IF s # <<>> /\ s[Len(s)] = " " THEN RStrip(SubSeq(s, 1, Len(s) - 1)) ELSE s

\* s.strip()
Strip(s) == RStrip(LStrip(s))

(***************************************************************************)
(* parse_esg_tags                                                          *)
(***************************************************************************)
\* The same without .lower(): the tokens keep their case.
parse_esg_tags_keep_case(t) ==
    {Strip(tok) : tok \in Range(Split(
        Replace(Replace(Replace(t, <<"E", ":">>), <<"S", ":">>), <<"G", ":">>)))}

parse_esg_tags(t) ==
    {LowerStr(Strip(tok)) : tok \in Range(Split(
        Replace(Replace(Replace(t, <<"E", ":">>), <<"S", ":">>), <<"G", ":">>)))}

RECURSIVE Join(_)
\* ",".join(tokens)
Join(toks) ==
    IF toks = <<>> THEN <<>>
    ELSE IF Len(toks) = 1 THEN toks[1]
    ELSE toks[1] \o <<",">> \o Join(Tail(toks))

\* The orders in which a set can be listed.
Orders(S) ==
    {f \in [1..Cardinality(S) -> S] : \A i, j \in 1..Cardinality(S) :
                                          i # j => f[i] # f[j]}

(***************************************************************************)
(* match_projects_to_investor                                              *)
(***************************************************************************)
\* A numeric cell and a text cell: float() raises ValueError on the second.
Num(n) == [num |-> TRUE, val |-> n]
Txt == [num |-> FALSE, val |-> 0]

\* set(str(investor_row['preferred_esg_criteria']).lower().split(","))
\* with every token trimmed as well
preferred_esg_trimmed(inv) ==
    {Strip(tok) : tok \in Range(Split(LowerStr(inv.preferred_esg_criteria)))}

\* set(str(investor_row['preferred_esg_criteria']).lower().split(","))
preferred_esg(inv) == Range(Split(LowerStr(inv.preferred_esg_criteria)))

\* len(preferred_esg.intersection(esg_tags))
esg_score(inv, p) ==
    Cardinality(preferred_esg(inv) \cap parse_esg_tags(p.esg_tags))

RECURSIVE AnyTag(_, _, _)
\* any(tag.strip()[0].upper() in selected_tags for tag in toks[k..]):
\* the generator is consumed left to right and stops at the first hit;
\* indexing an empty stripped token raises IndexError.
AnyTag(toks, D, k) ==
    IF k > Len(toks) THEN "false"
    ELSE LET t == Strip(toks[k])
         IN  IF t = <<>> THEN "raise"
             ELSE IF Upper(t[1]) \in D THEN "true"
             ELSE AnyTag(toks, D, k + 1)

\* The record appended for project p.
MatchRow(inv, p) ==
    [name    |-> p.name,
     sector  |-> p.sector,
     funding |-> p.funding_needed.val,
     score   |-> esg_score(inv, p)]

RECURSIVE MatchLoop(_, _, _, _, _)
\* The loop over projects_df.iterrows(), from row i on, matches so far given.
MatchLoop(inv, df, D, i, matches) ==
    IF i > Len(df) THEN [status |-> "ok", rows |-> matches]
    ELSE LET p == df[i]
         IN  IF ~p.funding_needed.num
             THEN [status |-> "raise", rows |-> <<>>]
             ELSE IF /\ LowerStr(p.sector) = LowerStr(inv.sector_focus)
                     /\ p.funding_needed.val >= inv.min_investment_size.val
                     /\ esg_score(inv, p) > 0
                  THEN LET hit == AnyTag(Split(p.esg_tags), D, 1)
                       IN  IF hit = "raise"
                           THEN [status |-> "raise", rows |-> <<>>]
                           ELSE IF hit = "true"
                           THEN MatchLoop(inv, df, D, i + 1,
                                          Append(matches, MatchRow(inv, p)))
                           ELSE MatchLoop(inv, df, D, i + 1, matches)
                  ELSE MatchLoop(inv, df, D, i + 1, matches)

\* The sort key (-x['ESG Score'], x['Funding Needed']): a sorts strictly before b
KeyLess(a, b) ==
    \/ a.score > b.score
    \/ a.score = b.score /\ a.funding < b.funding

\* x placed after every element that does not sort strictly after it
Insert(x, t) ==
    LET n == Cardinality({k \in 1..Len(t) : ~KeyLess(x, t[k])})
    IN  SubSeq(t, 1, n) \o <<x>> \o SubSeq(t, n + 1, Len(t))

RECURSIVE SortedByFunding(_)
\* The sort with the key x['Funding Needed'] alone.
SortedByFunding(s) ==
    IF s = <<>> THEN <<>>
    ELSE LET t == SortedByFunding(SubSeq(s, 1, Len(s) - 1))
             x == s[Len(s)]
             n == Cardinality({k \in 1..Len(t) : t[k].funding <= x.funding})
         IN  SubSeq(t, 1, n) \o <<x>> \o SubSeq(t, n + 1, Len(t))

RECURSIVE Sorted(_)
\* sorted(matches, key=...): Python's sort is stable
Sorted(s) ==
    IF s = <<>> THEN <<>>
    ELSE Insert(s[Len(s)], Sorted(SubSeq(s, 1, Len(s) - 1)))

\* The call with a text min_investment_size read as a floor of 0.
match_no_guard(inv, df, D) ==
    LET r == MatchLoop([inv EXCEPT !.min_investment_size = Num(0)], df, D, 1, <<>>)
    IN  IF r.status = "raise" THEN r
        ELSE [status |-> "ok", rows |-> Sorted(r.rows)]

\* status "error": st.error shown, empty frame returned;
\* status "raise": an exception leaves the function;
\* status "ok": the frame of the sorted matches (empty when there are none).
match_projects_to_investor(inv, df, D) ==
    IF ~inv.min_investment_size.num
    THEN [status |-> "error", rows |-> <<>>]
    ELSE LET r == MatchLoop(inv, df, D, 1, <<>>)
         IN  IF r.status = "raise" THEN r
             ELSE [status |-> "ok", rows |-> Sorted(r.rows)]

(***************************************************************************)
(* The store: upload_csv_to_db and INSERT OR REPLACE INTO project_notes    *)
(***************************************************************************)
\* An uploader holds no file, a file pd.read_csv rejects, or a table.
NoFile == [kind |-> "none", rows |-> <<>>]
BadFile == [kind |-> "bad", rows |-> <<>>]
Csv(rows) == [kind |-> "csv", rows |-> rows]

\* to_sql(..., if_exists="append"): the uploaded rows after the old ones.
upload_appending(file, table) ==
    IF file.kind = "none" THEN [rows |-> table, msg |-> "none"]
    ELSE IF file.kind = "bad" THEN [rows |-> table, msg |-> "error"]
    ELSE [rows |-> table \o file.rows, msg |-> "success"]

\* The rows of the table after the call, and the message shown.
upload_csv_to_db(file, table) ==
    IF file.kind = "none" THEN [rows |-> table, msg |-> "none"]
    ELSE IF file.kind = "bad" THEN [rows |-> table, msg |-> "error"]
    ELSE [rows |-> file.rows, msg |-> "success"]

NoteKey(r) == <<r.investor_name, r.project_name>>

\* INSERT OR IGNORE: an existing row of the key is kept.
InsertOrIgnore(T, r) ==
    IF \E x \in T : NoteKey(x) = NoteKey(r) THEN T ELSE T \cup {r}

\* INSERT OR REPLACE under PRIMARY KEY (investor_name) alone.
InsertOrReplaceByInvestor(T, r) ==
    {x \in T : x.investor_name # r.investor_name} \cup {r}

\* INSERT OR REPLACE under PRIMARY KEY (investor_name, project_name)
InsertOrReplace(T, r) == {x \in T : NoteKey(x) # NoteKey(r)} \cup {r}

RECURSIVE ExecuteAll(_, _)
\* The INSERT OR REPLACE statements of one pass, in order, then the commit.
ExecuteAll(T, writes) ==
    IF writes = <<>> THEN T
    ELSE ExecuteAll(InsertOrReplace(T, writes[1]), Tail(writes))

(***************************************************************************)
(* Sample data: the rows and strings the inputs are drawn from.            *)
(***************************************************************************)
green == <<"g", "r", "e", "e", "n">>
solar == <<"s", "o", "l", "a", "r">>
jobs == <<"j", "o", "b", "s">>
energy == <<"e", "n", "e", "r", "g", "y">>
Energy == <<"E", "n", "e", "r", "g", "y">>
water == <<"w", "a", "t", "e", "r">>
E_(w) == <<"E", ":">> \o w
S_(w) == <<"S", ":">> \o w
Comma == <<",">>
Space == <<" ">>

Investor(n, sec, min, crit) ==
    [name |-> n, sector_focus |-> sec, min_investment_size |-> min,
     preferred_esg_criteria |-> crit]

Project(n, sec, fund, t) ==
    [name |-> n, sector |-> sec, funding_needed |-> fund, esg_tags |-> t]

\* The investor and the two projects of the worked example.
ExampleInvestor == Investor("inv1", energy, Num(10000), green \o Comma \o solar)
ExampleA == Project("A", energy, Num(15000), E_(green) \o Comma \o S_(jobs))
ExampleB == Project("B", energy, Num(8000), E_(solar))

\* Investors given to the matcher alone.
InvestorPool ==
    { ExampleInvestor,
      Investor("inv2", Energy, Num(10000),
               E_(green) \o Comma \o Comma \o Space \o solar),
      Investor("inv3", energy, Txt, green \o Comma \o solar) }

\* Projects given to the matcher alone; the name is set by the row position.
ProjectPool ==
    { ExampleA,
      ExampleB,
      Project("P", energy, Num(10000), E_(solar)),
      Project("P", energy, Num(20000), E_(green) \o Comma \o E_(solar)),
      Project("P", water, Num(15000), E_(green)),
      Project("P", Energy, Num(15000), S_(jobs)),
      Project("P", energy, Num(15000), Comma \o S_(green)),
      Project("P", energy, Num(15000), E_(green) \o Comma),
      Project("P", energy, Num(15000), <<>>),
      Project("P", energy, Txt, E_(green)),
      Project("P", energy, Num(15000), Space \o green) }

RowNames == <<"A", "B", "C", "D">>

\* The collections of n pool projects, row i named RowNames[i].
Collections(n) ==
    {[i \in 1..n |-> [f[i] EXCEPT !.name = RowNames[i]]] : f \in [1..n -> ProjectPool]}

Dimensions == {"E", "S", "G"}

\* The characters of the raw tag strings given to parse_esg_tags alone.
TagAlphabet == {"E", "S", "G", ":", ",", " ", "x"}

TagStrings == UNION {[1..n -> TagAlphabet] : n \in 0..MaxTagLen}

\* The files and widget values of the application's sessions.
Sessions == {"s1", "s2"}
InvestorsCsv ==
    <<ExampleInvestor, Investor("inv2", energy, Txt, green \o Comma \o solar)>>
ProjectsCsvA == <<ExampleA, ExampleB>>
ProjectsCsvB ==
    <<Project("B", energy, Num(20000), E_(solar)),
      Project("A", energy, Num(15000), E_(green))>>
ProjectsCsvC == <<Project("C", energy, Txt, E_(green) \o Comma)>>
InvestorFiles == {NoFile, BadFile, Csv(InvestorsCsv), Csv(<<>>)}
ProjectFiles == {NoFile, BadFile, Csv(ProjectsCsvA), Csv(ProjectsCsvB),
                 Csv(ProjectsCsvC)}
FilterChoices == {{"E", "S", "G"}, {"G"}}
NoteTexts == {"", "x"}

(***************************************************************************)
(* The values of the variables a specification does not exercise.          *)
(***************************************************************************)
NotCalled == [status |-> "none", rows |-> <<>>]
NoReport == [investors |-> "none", projects |-> "none"]
NoView == [investor |-> "", status |-> "nodata", rows |-> <<>>]
DefaultWidget == [interested |-> FALSE, notes |-> ""]
DefaultSession ==
    [selected_investor |-> "", selected_tags |-> {"E", "S", "G"}, widgets |-> <<>>]

ParseIdle == tags = <<>> /\ parsed = {} /\ reparsed = {}
MatchIdle ==
    /\ investor_row = ExampleInvestor
    /\ projects_df = <<>>
    /\ selected_tags = {}
    /\ match_df = NotCalled
StoreEmpty == investors = <<>> /\ projects = <<>> /\ project_notes = {}
SessionsIdle ==
    /\ session = [s \in Sessions |-> DefaultSession]
    /\ view = NoView
    /\ last_write = <<>>
    /\ ever_matched = {}
UploadIdle == investor_csv = NoFile /\ project_csv = NoFile /\ report = NoReport

(***************************************************************************)
(* ParseSpec: parse_esg_tags applied to a raw tag string, then applied     *)
(* again to its own tokens joined with commas.                             *)
(***************************************************************************)
ParseInit ==
    /\ tags \in TagStrings
    /\ parsed = {}
    /\ reparsed = {}
    /\ pc = "start"
    /\ MatchIdle /\ StoreEmpty /\ SessionsIdle /\ UploadIdle

Parse ==
    /\ pc = "start"
    /\ parsed' = parse_esg_tags(tags)
    /\ pc' = "parsed"
    /\ UNCHANGED <<tags, reparsed, matchVars, appVars, uploadVars>>

\* a Python set lists its tokens in no particular order
Reparse ==
    /\ pc = "parsed"
    /\ \E o \in Orders(parsed) : reparsed' = parse_esg_tags(Join(o))
    /\ pc' = "reparsed"
    /\ UNCHANGED <<tags, parsed, matchVars, appVars, uploadVars>>

ParseNext == Parse \/ Reparse

ParseSpec == ParseInit /\ [][ParseNext]_vars

(***************************************************************************)
(* MatchSpec: one call of match_projects_to_investor.                      *)
(***************************************************************************)
MatchInit ==
    /\ investor_row \in InvestorPool
    /\ projects_df \in UNION {Collections(n) : n \in 1..MaxProjects}
    /\ selected_tags \in SUBSET Dimensions
    /\ match_df = NotCalled
    /\ pc = "start"
    /\ ParseIdle /\ StoreEmpty /\ SessionsIdle /\ UploadIdle

Match ==
    /\ pc = "start"
    /\ match_df' = match_projects_to_investor(investor_row, projects_df, selected_tags)
    /\ pc' = "done"
    /\ UNCHANGED <<investor_row, projects_df, selected_tags, parseVars, appVars,
                   uploadVars>>

MatchNext == Match

MatchSpec == MatchInit /\ [][MatchNext]_vars

(***************************************************************************)
(* UploadSpec: the "Upload & Replace Data" button, lines 119-123 of main,  *)
(* over a store that already holds rows.                                   *)
(***************************************************************************)
SampleNotes ==
    { {},
      {[investor_name |-> "inv1", project_name |-> "A",
        interested |-> TRUE, notes |-> "x"]} }

UploadInit ==
    /\ investors \in {<<>>, InvestorsCsv}
    /\ projects \in {<<>>, ProjectsCsvA, ProjectsCsvB}
    /\ project_notes \in SampleNotes
    /\ UploadIdle
    /\ pc = "upload"
    /\ ParseIdle /\ MatchIdle /\ SessionsIdle

\* the user puts files into the two uploaders
ChooseFiles ==
    /\ investor_csv' \in InvestorFiles
    /\ project_csv' \in ProjectFiles
    /\ report' = NoReport
    /\ UNCHANGED <<investors, projects, project_notes, session, view, last_write,
                   ever_matched, pc, parseVars, matchVars>>

\* if st.sidebar.button(...): one upload_csv_to_db call per uploader that holds a file
UploadButton ==
    LET ui == upload_csv_to_db(investor_csv, investors)
        up == upload_csv_to_db(project_csv, projects)
    IN  /\ investors' = ui.rows
        /\ projects' = up.rows
        /\ report' = [investors |-> ui.msg, projects |-> up.msg]
        /\ UNCHANGED <<project_notes, investor_csv, project_csv, session, view,
                       last_write, ever_matched, pc, parseVars, matchVars>>

UploadNext == ChooseFiles \/ UploadButton

UploadSpec == UploadInit /\ [][UploadNext]_vars

(***************************************************************************)
(* Spec: the application.  Every interaction of a session reruns main()    *)
(* from top to bottom with that session's widget values.  A pass is one    *)
(* step: SQLite serializes the transactions of the sessions, and a pass    *)
(* never reads project_notes, so its commit is the point where it acts.    *)
(* Streamlit keeps the value of a keyed widget while the widget is on the  *)
(* page, and the select box falls back to its first option when its        *)
(* choice is no longer among the names.  Project names are distinct        *)
(* within an uploaded file.                                                *)
(***************************************************************************)
InvestorNames(t) == {t[i].name : i \in 1..Len(t)}

\* investors[investors["name"] == selected_investor].iloc[0]
InvestorRow(t, n) ==
    t[CHOOSE i \in 1..Len(t) : t[i].name = n /\ \A j \in 1..(i - 1) : t[j].name # n]

\* The value of the check box and the text area keyed by k in widget state w.
WidgetValue(w, k) == IF k \in DOMAIN w.widgets THEN w.widgets[k] ELSE DefaultWidget

\* The rows the loop over match_df writes, in order.
NoteWrites(w, row, rows) ==
    [i \in 1..Len(rows) |->
        [investor_name |-> row.name,
         project_name  |-> rows[i].name,
         interested    |-> WidgetValue(w, <<row.name, rows[i].name>>).interested,
         notes         |-> WidgetValue(w, <<row.name, rows[i].name>>).notes]]

WrittenKeys(writes) == {NoteKey(writes[i]) : i \in 1..Len(writes)}

\* The latest write of key k among writes.
LatestOf(writes, k) ==
    LET i == CHOOSE i \in 1..Len(writes) :
                 /\ NoteKey(writes[i]) = k
                 /\ \A j \in (i + 1)..Len(writes) : NoteKey(writes[j]) # k
    IN  [interested |-> writes[i].interested, notes |-> writes[i].notes]

\* One run of main() by session s whose widget state is w; clicked tells
\* whether the upload button was pressed, with icsv and pcsv in the uploaders.
\* (\E x \in {e} binds x to the value of e, computed once.)
MainPass(s, w, clicked, icsv, pcsv) ==
    \E ui \in {IF clicked THEN upload_csv_to_db(icsv, investors)
                          ELSE [rows |-> investors, msg |-> "none"]} :
    \E up \in {IF clicked THEN upload_csv_to_db(pcsv, projects)
                          ELSE [rows |-> projects, msg |-> "none"]} :
        /\ investors' = ui.rows
        /\ projects' = up.rows
        /\ IF ui.rows = <<>> \/ up.rows = <<>>
           THEN /\ view' = NoView
                /\ session' = [session EXCEPT ![s] =
                       [w EXCEPT !.selected_investor = "", !.widgets = <<>>]]
                /\ UNCHANGED <<project_notes, last_write, ever_matched>>
           ELSE \E sel \in {IF w.selected_investor \in InvestorNames(ui.rows)
                            THEN w.selected_investor
                            ELSE ui.rows[1].name} :
                \E row \in {InvestorRow(ui.rows, sel)} :
                \E m \in {match_projects_to_investor(row, up.rows, w.selected_tags)} :
                \E writes \in {NoteWrites(w, row, m.rows)} :
                \E shown \in {{<<row.name, m.rows[i].name>> : i \in 1..Len(m.rows)}} :
                    /\ view' = [investor |-> sel, status |-> m.status, rows |-> m.rows]
                    /\ project_notes' = ExecuteAll(project_notes, writes)
                    /\ session' = [session EXCEPT ![s] =
                           [selected_investor |-> sel,
                            selected_tags |-> w.selected_tags,
                            widgets |-> [k \in shown |-> WidgetValue(w, k)]]]
                    /\ last_write' =
                           [k \in DOMAIN last_write \cup WrittenKeys(writes) |->
                               IF k \in WrittenKeys(writes) THEN LatestOf(writes, k)
                               ELSE last_write[k]]
                    /\ ever_matched' = ever_matched \cup shown
        /\ UNCHANGED <<pc, parseVars, matchVars, uploadVars>>

Init ==
    /\ StoreEmpty /\ SessionsIdle /\ UploadIdle
    /\ pc = "app"
    /\ ParseIdle /\ MatchIdle

\* a rerun in which no widget changed
Rerun(s) ==
    /\ s \in Sessions
    /\ MainPass(s, session[s], FALSE, NoFile, NoFile)

\* the page is opened anew: every widget starts from its default
NewSession(s) ==
    /\ s \in Sessions
    /\ MainPass(s, DefaultSession, FALSE, NoFile, NoFile)

\* the select box is on the page once both tables hold rows
SelectInvestor(s, n) ==
    /\ session[s].selected_investor # ""
    /\ n \in InvestorNames(investors)
    /\ n # session[s].selected_investor
    /\ MainPass(s, [session[s] EXCEPT !.selected_investor = n], FALSE, NoFile, NoFile)

SetFilter(s, D) ==
    /\ D # session[s].selected_tags
    /\ MainPass(s, [session[s] EXCEPT !.selected_tags = D], FALSE, NoFile, NoFile)

\* the check box of a match that session s shows
ToggleInterest(s, k) ==
    /\ k \in DOMAIN session[s].widgets
    /\ MainPass(s, [session[s] EXCEPT !.widgets[k].interested = ~@],
                FALSE, NoFile, NoFile)

\* the text area of a match that session s shows
EditNote(s, k, t) ==
    /\ k \in DOMAIN session[s].widgets
    /\ t # session[s].widgets[k].notes
    /\ MainPass(s, [session[s] EXCEPT !.widgets[k].notes = t], FALSE, NoFile, NoFile)

ClickUpload(s, icsv, pcsv) ==
    /\ s \in Sessions
    /\ MainPass(s, session[s], TRUE, icsv, pcsv)

Next ==
    \/ \E s \in Sessions : Rerun(s)
    \/ \E s \in Sessions : NewSession(s)
    \/ \E s \in Sessions : \E n \in InvestorNames(investors) : SelectInvestor(s, n)
    \/ \E s \in Sessions : \E D \in FilterChoices : SetFilter(s, D)
    \/ \E s \in Sessions : \E k \in DOMAIN session[s].widgets : ToggleInterest(s, k)
    \/ \E s \in Sessions : \E k \in DOMAIN session[s].widgets :
           \E t \in NoteTexts : EditNote(s, k, t)
    \/ \E s \in Sessions : \E icsv \in InvestorFiles : \E pcsv \in ProjectFiles :
           ClickUpload(s, icsv, pcsv)

Spec == Init /\ [][Next]_vars

(***************************************************************************)
(* The matching conditions as the specification words them.                *)
(***************************************************************************)
\* The comma-separated tokens of s: its maximal comma-free stretches.
Tokens(s) ==
    {SubSeq(s, ab[1], ab[2]) : ab \in
        {x \in (1..(Len(s) + 1)) \X (0..Len(s)) :
            /\ x[2] >= x[1] - 1
            /\ x[1] = 1 \/ s[x[1] - 1] = ","
            /\ x[2] = Len(s) \/ s[x[2] + 1] = ","
            /\ \A k \in x[1]..x[2] : s[k] # ","}}

SectorEqual(inv, p) == LowerStr(p.sector) = LowerStr(inv.sector_focus)
FundingAtLeastFloor(inv, p) ==
    p.funding_needed.val >= inv.min_investment_size.val
Intersection(inv, p) ==
    Tokens(LowerStr(inv.preferred_esg_criteria)) \cap parse_esg_tags(p.esg_tags)
DimensionLetter(p, D) ==
    \E t \in Tokens(p.esg_tags) : Strip(t) # <<>> /\ Upper(Strip(t)[1]) \in D
Qualifies(inv, p, D) ==
    /\ SectorEqual(inv, p)
    /\ FundingAtLeastFloor(inv, p)
    /\ Cardinality(Intersection(inv, p)) > 0
    /\ DimensionLetter(p, D)

AllFundingNumeric == \A i \in 1..Len(projects_df) : projects_df[i].funding_needed.num
InResult(i) == \E k \in 1..Len(match_df.rows) : match_df.rows[k].name = projects_df[i].name
\* The row position of the project a result record was made from.
RowOf(r) == CHOOSE i \in 1..Len(projects_df) : projects_df[i].name = r.name

\* C1: for an investor with a numeric floor, a project is in the result iff
\* sector equality, funding >= floor, intersection score > 0 and the
\* dimension-letter condition on the raw tokens all hold.
C1_MatchIffAllFour ==
    (pc = "done" /\ investor_row.min_investment_size.num /\ AllFundingNumeric)
        => \A i \in 1..Len(projects_df) :
               InResult(i) <=> Qualifies(investor_row, projects_df[i], selected_tags)

\* C2: the score of every record is the size of the intersection of the
\* investor's lowercased, comma-split, untrimmed criteria with the project's
\* normalized tag set; it is at least 1; it is 1 for criteria "green,solar"
\* and tags "E:green,S:jobs".
C2_ScoreIsIntersection ==
    pc = "done" =>
        \A k \in 1..Len(match_df.rows) :
            LET r == match_df.rows[k]
                p == projects_df[RowOf(r)]
            IN  /\ r.score = Cardinality(Intersection(investor_row, p))
                /\ r.score >= 1
                /\ (/\ investor_row.preferred_esg_criteria = green \o Comma \o solar
                    /\ p.esg_tags = E_(green) \o Comma \o S_(jobs)) => r.score = 1

C2_Witness ==
    /\ pc = "done"
    /\ investor_row = ExampleInvestor
    /\ projects_df = <<ExampleA, ExampleB>>
    /\ selected_tags = {"E"}
    /\ Len(match_df.rows) = 1
    /\ match_df.rows[1].name = "A"
    /\ match_df.rows[1].score = 1

\* C3: the result is ordered by score descending then funding ascending,
\* records equal in both keep the order of their projects in the collection,
\* and the result holds each qualifying project exactly once.
C3_RankedStablePermutation ==
    (pc = "done" /\ match_df.status = "ok") =>
        LET rows == match_df.rows
        IN  /\ \A k \in 1..(Len(rows) - 1) :
                   \/ rows[k].score > rows[k + 1].score
                   \/ /\ rows[k].score = rows[k + 1].score
                      /\ rows[k].funding <= rows[k + 1].funding
            /\ \A k, l \in 1..Len(rows) :
                   (/\ k < l
                    /\ rows[k].score = rows[l].score
                    /\ rows[k].funding = rows[l].funding)
                       => RowOf(rows[k]) < RowOf(rows[l])
            /\ \A k, l \in 1..Len(rows) : k # l => rows[k].name # rows[l].name
            /\ \A i \in 1..Len(projects_df) :
                   InResult(i) <=> Qualifies(investor_row, projects_df[i], selected_tags)
            /\ \A k \in 1..Len(rows) :
                   /\ rows[k].funding = projects_df[RowOf(rows[k])].funding_needed.val
                   /\ rows[k].sector = projects_df[RowOf(rows[k])].sector

C3_Witness ==
    /\ pc = "done"
    /\ match_df.status = "ok"
    /\ Len(match_df.rows) = 3
    /\ match_df.rows[1].score > match_df.rows[2].score
    /\ match_df.rows[2].score = match_df.rows[3].score
    /\ match_df.rows[2].funding = match_df.rows[3].funding
    /\ RowOf(match_df.rows[1]) > RowOf(match_df.rows[2])

\* C10: with a numeric floor, numeric funding and string tags the call
\* returns a result for every dimension-letter set, empty tokens included.
C10_NoHardFailure ==
    (pc = "done" /\ investor_row.min_investment_size.num /\ AllFundingNumeric)
        => match_df.status = "ok"

\* C7: normalizing the comma-joined tokens of a normalized tag set gives the
\* same set, and the empty string normalizes to the set of one empty token.
C7_NormalizeIdempotent ==
    /\ pc = "reparsed" => reparsed = parsed
    /\ (pc # "start" /\ tags = <<>>) => parsed = {<<>>}

C7_Witness ==
    /\ pc = "reparsed"
    /\ tags = <<"E", "E", ":", ":", "x">>
    /\ parsed = {<<"e", ":", "x">>}
    /\ reparsed = parsed

(***************************************************************************)
(* Claims about the store and the sessions.                                *)
(***************************************************************************)
NoteKeys(T) == {NoteKey(r) : r \in T}

C5_LastWriteWins ==
    /\ \A r1, r2 \in project_notes : NoteKey(r1) = NoteKey(r2) => r1 = r2
    /\ NoteKeys(project_notes) = DOMAIN last_write
    /\ \A r \in project_notes :
           [interested |-> r.interested, notes |-> r.notes] = last_write[NoteKey(r)]
    /\ \A k \in ever_matched : \A i \in BOOLEAN : \A t \in NoteTexts :
           LET r == [investor_name |-> k[1], project_name |-> k[2],
                     interested |-> i, notes |-> t]
           IN  ExecuteAll(project_notes, <<r, r>>) = ExecuteAll(project_notes, <<r>>)

\* Both sessions hold different values for the same match, and the stored
\* row is the one session s2 wrote after session s1.
C5_Witness ==
    /\ <<"inv1", "A">> \in DOMAIN session["s1"].widgets
    /\ <<"inv1", "A">> \in DOMAIN session["s2"].widgets
    /\ session["s1"].widgets[<<"inv1", "A">>] = [interested |-> TRUE, notes |-> "x"]
    /\ session["s2"].widgets[<<"inv1", "A">>] = [interested |-> FALSE, notes |-> ""]
    /\ [investor_name |-> "inv1", project_name |-> "A",
        interested |-> FALSE, notes |-> ""] \in project_notes
    /\ Cardinality(project_notes) = 2

\* C6: every project_notes row is for a pair that some pass displayed as a
\* match, and no step removes a key from project_notes.
C6_NotesOnlyForMatchesNeverDeleted ==
    /\ [](NoteKeys(project_notes) \subseteq ever_matched)
    /\ [][NoteKeys(project_notes) \subseteq NoteKeys(project_notes')]_vars

\* A note for project A is kept although the projects table no longer has A.
C6_Witness ==
    /\ projects = ProjectsCsvC
    /\ \E r \in project_notes : r.project_name = "A" /\ r.interested

\* What one upload_csv_to_db call must have done to its table.
TableContract(file, old, new, msg) ==
    /\ file.kind = "csv" => msg = "success" /\ new = file.rows
    /\ file.kind = "bad" => msg = "error" /\ new = old
    /\ file.kind = "none" => msg = "none" /\ new = old

C9_NoWriteWithoutEdit ==
    [][(\E s \in Sessions : Rerun(s) \/ NewSession(s))
          => project_notes \subseteq project_notes']_vars

=============================================================================
